---- MODULE Spec2Model ----
(***************************************************************************)
(* Restaurant menu model of python-oop-api: the entry script app1.py, the  *)
(* Sobremesa class, and the classes they import (ItemCardapio, Bebida,     *)
(* Prato, Restaurante).                                                    *)
(*                                                                         *)
(* A Python process either runs app1.py as the main program (the module    *)
(* body, then main(), then exit) or imports it (the module body only);     *)
(* after an import the importing client may go on calling the classes'     *)
(* operations on the module's objects and on objects it constructs.        *)
(*                                                                         *)
(* Prices are Python floats; they are modelled as exact rationals <<n, d>> *)
(* in lowest terms with d > 0, so the arithmetic below is the real-number  *)
(* arithmetic the float operations approximate.                            *)
(***************************************************************************)
EXTENDS Integers, Sequences, FiniteSets, TLC

VARIABLES
    pc,                 \* position in app1.py ("L6" .. "L25", "main", "done", "client")
    isMain,             \* __name__ == '__main__'
    itens,              \* heap of menu item objects, in construction order
    restaurante_praca,  \* the Restaurante object bound at app1.py line 6
    saida,              \* lines written to standard output
    ret,                \* outcome of the last call: operation, target, exception, value
    exitcode,           \* process exit status (-1 while running)
    chamadas,           \* number of calls the importing client has made
    preco0,             \* history: price each item was constructed with
    descontos,          \* history: number of aplicar_desconto calls per item
    adicionados         \* history: items passed to adicionar_no_cardapio, in call order

vars == <<pc, isMain, itens, restaurante_praca, saida, ret, exitcode, chamadas,
          preco0, descontos, adicionados>>

\* Bounds of the exploration.
MaxItens == 4
MaxChamadas == 4
MaxCardapio == 4
MaxDescontos == 3

(***************************************************************************)
(* Rational arithmetic standing for float arithmetic.                      *)
(***************************************************************************)
Abs(x) == IF x < 0 THEN -x ELSE x

RECURSIVE GCD(_, _)
GCD(a, b) == IF b = 0 THEN a ELSE GCD(b, a % b)

Norm(n, d) ==
    LET g == GCD(Abs(n), Abs(d))
        s == IF d < 0 THEN -1 ELSE 1
    IN  <<(s * n) \div g, (s * d) \div g>>

Mul(a, b) ==
    LET g1 == GCD(Abs(a[1]), b[2])
        g2 == GCD(Abs(b[1]), a[2])
    IN  Norm((a[1] \div g1) * (b[1] \div g2), (a[2] \div g2) * (b[2] \div g1))

Sub(a, b) ==
    LET g == GCD(a[2], b[2])
        l == (a[2] \div g) * b[2]
    IN  Norm(a[1] * (l \div a[2]) - b[1] * (l \div b[2]), l)

RECURSIVE Pow(_, _)
Pow(a, k) == IF k = 0 THEN <<1, 1>> ELSE Mul(a, Pow(a, k - 1))

IsNeg(a) == a[1] < 0
Zero == <<0, 1>>

\* Float literals of the sources.
Lit_0_15 == <<3, 20>>
Lit_0_10 == <<1, 10>>
Lit_29_90 == <<299, 10>>
Lit_5_0 == <<5, 1>>
Lit_2_00 == <<2, 1>>

(***************************************************************************)
(* Classes.  An object is a record: cls names its class, the other fields  *)
(* are its instance attributes under the names the code assigns them.      *)
(***************************************************************************)

\* ItemCardapio.__init__(nome, preco): the base keeps the name and the price.
ItemCardapio_init(nome, preco) == [_nome |-> nome, _preco |-> preco]

\* Sobremesa.__init__: the base attributes, then tipo, tamanho, descricao.
Sobremesa_init(nome, preco, tipo, tamanho, descricao) ==
    [cls |-> "Sobremesa"] @@ ItemCardapio_init(nome, preco)
        @@ [tipo |-> tipo, tamanho |-> tamanho, descricao |-> descricao]

\* Sobremesa.__str__: formats self._tipo, self._tamanho, self._descricao; reading
\* an attribute the object does not have raises AttributeError.
Sobremesa_str(self) ==
    IF {"_tipo", "_tamanho", "_descricao"} \subseteq DOMAIN self
    THEN [exc |-> "none",
          val |-> <<"Tipo: ", self["_tipo"], " | Tamanho: ", self["_tamanho"],
                    " | descricao: ", self["_descricao"]>>]
    ELSE [exc |-> "AttributeError", val |-> <<>>]

\* Faulty variants of Sobremesa.aplicar_desconto, used to test the properties below.
\* The drink's rate instead of 15%.
Sobremesa_aplicar_desconto_taxa10(self) ==
    [self EXCEPT !["_preco"] = Sub(@, Mul(@, Lit_0_10))]

\* A guard that makes a second application a no-op.
Sobremesa_aplicar_desconto_unica(self) ==
    IF "_desconto_aplicado" \in DOMAIN self THEN self
    ELSE [self EXCEPT !["_preco"] = Sub(@, Mul(@, Lit_0_15))]
             @@ [_desconto_aplicado |-> TRUE]

\* A flat amount instead of a share of the price.
Sobremesa_aplicar_desconto_fixo(self) ==
    [self EXCEPT !["_preco"] = Sub(@, Lit_0_15)]

\* Validation that resets a negative price to zero.
Sobremesa_aplicar_desconto_validado(self) ==
    IF IsNeg(self["_preco"]) THEN [self EXCEPT !["_preco"] = Zero]
    ELSE [self EXCEPT !["_preco"] = Sub(@, Mul(@, Lit_0_15))]

\* The result stored under the public name, as __init__ does for tipo.
Sobremesa_aplicar_desconto_publico(self) ==
    [preco |-> Sub(self["_preco"], Mul(self["_preco"], Lit_0_15))] @@ self

\* Sobremesa.aplicar_desconto: self._preco -= (self._preco * 0.15)
Sobremesa_aplicar_desconto(self) ==
    [self EXCEPT !["_preco"] = Sub(@, Mul(@, Lit_0_15))]

\* Bebida: name, price, size; 10% discount; renders name, price, size.
Bebida_init(nome, preco, tamanho) ==
    [cls |-> "Bebida"] @@ ItemCardapio_init(nome, preco) @@ [_tamanho |-> tamanho]

Bebida_str(self) ==
    [exc |-> "none", val |-> <<self["_nome"], self["_preco"], self["_tamanho"]>>]

Bebida_aplicar_desconto(self) ==
    [self EXCEPT !["_preco"] = Sub(@, Mul(@, Lit_0_10))]

\* Prato: name, price, description; 10% discount; renders name, price, description.
Prato_init(nome, preco, descricao) ==
    [cls |-> "Prato"] @@ ItemCardapio_init(nome, preco) @@ [_descricao |-> descricao]

Prato_str(self) ==
    [exc |-> "none", val |-> <<self["_nome"], self["_preco"], self["_descricao"]>>]

Prato_aplicar_desconto(self) ==
    [self EXCEPT !["_preco"] = Sub(@, Mul(@, Lit_0_10))]

\* Method resolution on the object's class.
aplicar_desconto(self) ==
    CASE self.cls = "Sobremesa" -> Sobremesa_aplicar_desconto(self)
      [] self.cls = "Bebida" -> Bebida_aplicar_desconto(self)
      [] self.cls = "Prato" -> Prato_aplicar_desconto(self)

str(self) ==
    CASE self.cls = "Sobremesa" -> Sobremesa_str(self)
      [] self.cls = "Bebida" -> Bebida_str(self)
      [] self.cls = "Prato" -> Prato_str(self)

\* Restaurante: location, category and an initially empty ordered menu of item
\* references (indices into itens).
Restaurante_init(nome, categoria) ==
    [cls |-> "Restaurante", _nome |-> nome, _categoria |-> categoria, _cardapio |-> <<>>]

\* Restaurante.adicionar_no_cardapio(item): appends the item to the menu.
Restaurante_adicionar_no_cardapio(self, item) ==
    [self EXCEPT !["_cardapio"] = Append(@, item)]

\* Restaurante.exibir_cardapio(): prints every item's description in insertion
\* order; an exception raised by an item's __str__ ends the enumeration.
RECURSIVE ImprimirItens(_, _, _)
ImprimirItens(heap, refs, out) ==
    IF refs = <<>> THEN [out |-> out, exc |-> "none"]
    ELSE LET r == str(heap[Head(refs)])
         IN  IF r.exc # "none" THEN [out |-> out, exc |-> r.exc]
             ELSE ImprimirItens(heap, Tail(refs), Append(out, r.val))

Restaurante_exibir_cardapio(self, heap, out) ==
    ImprimirItens(heap, self["_cardapio"], out)

\* The attribute exibir_cardapio read without a call: exibir_cardapio is an
\* operation of the restaurant, so the lookup yields the bound method and has no
\* effect of its own.
Restaurante_getattr_exibir_cardapio(self, heap, out) ==
    [out |-> out, exc |-> "none"]

(***************************************************************************)
(* Calls.  Each is what one call does to the heap, the restaurant, the     *)
(* output and the history variables.                                       *)
(***************************************************************************)
Resultado(op, alvo, exc, val) == [op |-> op, alvo |-> alvo, exc |-> exc, val |-> val]

\* obj = Class(...): a new object on the heap.
Construir(obj) ==
    /\ itens' = Append(itens, obj)
    /\ preco0' = Append(preco0, obj["_preco"])
    /\ descontos' = Append(descontos, 0)
    /\ ret' = Resultado("init", Len(itens) + 1, "none", <<>>)
    /\ UNCHANGED <<restaurante_praca, saida, adicionados>>

\* itens[i].aplicar_desconto()
ChamarDesconto(i) ==
    /\ itens' = [itens EXCEPT ![i] = aplicar_desconto(@)]
    /\ descontos' = [descontos EXCEPT ![i] = @ + 1]
    /\ ret' = Resultado("aplicar_desconto", i, "none", <<>>)
    /\ UNCHANGED <<restaurante_praca, saida, preco0, adicionados>>

\* restaurante_praca.adicionar_no_cardapio(itens[i])
ChamarAdicionar(i) ==
    /\ restaurante_praca' = Restaurante_adicionar_no_cardapio(restaurante_praca, i)
    /\ adicionados' = Append(adicionados, i)
    /\ ret' = Resultado("adicionar_no_cardapio", i, "none", <<>>)
    /\ UNCHANGED <<itens, saida, preco0, descontos>>

\* str(itens[i])
ChamarStr(i) ==
    /\ ret' = LET r == str(itens[i]) IN Resultado("str", i, r.exc, r.val)
    /\ UNCHANGED <<itens, restaurante_praca, saida, preco0, descontos, adicionados>>

\* restaurante_praca.exibir_cardapio()
ChamarExibir ==
    LET r == Restaurante_exibir_cardapio(restaurante_praca, itens, saida)
    IN  /\ saida' = r.out
        /\ ret' = Resultado("exibir_cardapio", 0, r.exc, <<>>)
        /\ UNCHANGED <<itens, restaurante_praca, preco0, descontos, adicionados>>

(***************************************************************************)
(* app1.py, one action per statement.                                      *)
(***************************************************************************)
Passo(de, para) ==
    /\ pc = de
    /\ pc' = para
    /\ UNCHANGED <<isMain, exitcode, chamadas>>

\* restaurante_praca = Restaurante('praça', 'Gourmet')
Line6 ==
    /\ Passo("L6", "L8")
    /\ restaurante_praca' = Restaurante_init("praça", "Gourmet")
    /\ ret' = Resultado("init", 0, "none", <<>>)
    /\ UNCHANGED <<itens, saida, preco0, descontos, adicionados>>

Line8 ==
    /\ Passo("L8", "L9")
    /\ Construir(Bebida_init("Suco de Melancia", Lit_5_0, "grande"))

\* Faulty variant: the drink's discount call left out.
Line9_omitida == 
    /\ Passo("L9", "L11")
    /\ UNCHANGED <<itens, restaurante_praca, saida, ret, preco0, descontos, adicionados>>

Line9 == Passo("L9", "L11") /\ ChamarDesconto(1)

Line11 ==
    /\ Passo("L11", "L12")
    /\ Construir(Prato_init("Paozinho", Lit_2_00, "O melhor pão da cidade"))

Line12 == Passo("L12", "L14") /\ ChamarDesconto(2)

Line14 ==
    /\ Passo("L14", "L15")
    /\ Construir(Sobremesa_init("Pet Gatou", Lit_29_90, "Doce", "pequena",
                                "Chocolate belga Amarelo"))

\* Faulty variant: the dish discounted a second time instead of the dessert.
Line15_prato == Passo("L15", "L17") /\ ChamarDesconto(2)

Line15 == Passo("L15", "L17") /\ ChamarDesconto(3)

Line17 == Passo("L17", "L18") /\ ChamarAdicionar(1)

\* Faulty variant: the dessert added in the dish's place.
Line18_sobremesa == Passo("L18", "L19") /\ ChamarAdicionar(3)

Line18 == Passo("L18", "L19") /\ ChamarAdicionar(2)

Line19 == Passo("L19", "L25") /\ ChamarAdicionar(3)

\* def main(): ... ; if __name__ == '__main__': main()
Line25 ==
    /\ pc = "L25"
    /\ pc' = IF isMain THEN "main" ELSE "client"
    /\ UNCHANGED <<isMain, exitcode, chamadas, itens, restaurante_praca, saida, ret,
                   preco0, descontos, adicionados>>

\* Faulty variant: the display operation is called.
Main_chama ==
    LET r == Restaurante_exibir_cardapio(restaurante_praca, itens, saida)
    IN  /\ Passo("main", "fim")
        /\ saida' = r.out
        /\ ret' = Resultado("exibir_cardapio", 0, r.exc, <<>>)
        /\ UNCHANGED <<itens, restaurante_praca, preco0, descontos, adicionados>>

\* main(): the expression statement restaurante_praca.exibir_cardapio looks the
\* attribute up and drops its value; nothing is called.
Main ==
    LET r == Restaurante_getattr_exibir_cardapio(restaurante_praca, itens, saida)
    IN  /\ Passo("main", "fim")
        /\ saida' = r.out
        /\ ret' = Resultado("getattr", 0, r.exc, <<>>)
        /\ UNCHANGED <<itens, restaurante_praca, preco0, descontos, adicionados>>

\* End of the module run as a program: status 0, or 1 after an uncaught exception.
Exit ==
    /\ pc = "fim"
    /\ pc' = "done"
    /\ exitcode' = IF ret.exc = "none" THEN 0 ELSE 1
    /\ UNCHANGED <<isMain, chamadas, itens, restaurante_praca, saida, ret,
                   preco0, descontos, adicionados>>

(***************************************************************************)
(* The importing client: calls on the module's objects after the import.   *)
(***************************************************************************)
Precos == {Zero, <<-10, 1>>, <<1, 3>>, Lit_29_90}
Tamanhos == {"pequena", "grande"}

Cliente ==
    /\ pc = "client"
    /\ chamadas < MaxChamadas
    /\ chamadas' = chamadas + 1
    /\ UNCHANGED <<pc, isMain, exitcode>>

ClienteNovaSobremesa ==
    /\ Cliente
    /\ Len(itens) < MaxItens
    /\ \E p \in Precos, t \in Tamanhos :
          Construir(Sobremesa_init("Pudim", p, "Doce", t, "Leite condensado"))

ClienteNovaBebida ==
    /\ Cliente
    /\ Len(itens) < MaxItens
    /\ \E p \in Precos, t \in Tamanhos : Construir(Bebida_init("Cha", p, t))

ClienteNovoPrato ==
    /\ Cliente
    /\ Len(itens) < MaxItens
    /\ \E p \in Precos : Construir(Prato_init("Sopa", p, "Do dia"))

ClienteDesconto ==
    /\ Cliente
    /\ \E i \in DOMAIN itens : descontos[i] < MaxDescontos /\ ChamarDesconto(i)

ClienteAdicionar ==
    /\ Cliente
    /\ Len(restaurante_praca["_cardapio"]) < MaxCardapio
    /\ \E i \in DOMAIN itens : ChamarAdicionar(i)

ClienteStr == Cliente /\ \E i \in DOMAIN itens : ChamarStr(i)

ClienteExibir == Cliente /\ ChamarExibir

Init ==
    /\ pc = "L6"
    /\ isMain \in BOOLEAN
    /\ itens = <<>>
    /\ restaurante_praca = [cls |-> "unbound"]
    /\ saida = <<>>
    /\ ret = Resultado("none", 0, "none", <<>>)
    /\ exitcode = -1
    /\ chamadas = 0
    /\ preco0 = <<>>
    /\ descontos = <<>>
    /\ adicionados = <<>>

Next ==
    \/ Line6 \/ Line8 \/ Line9 \/ Line11 \/ Line12 \/ Line14 \/ Line15
    \/ Line17 \/ Line18 \/ Line19 \/ Line25 \/ Main \/ Exit
    \/ ClienteNovaSobremesa \/ ClienteNovaBebida \/ ClienteNovoPrato
    \/ ClienteDesconto \/ ClienteAdicionar \/ ClienteStr \/ ClienteExibir

Spec == Init /\ [][Next]_vars

(***************************************************************************)
(* Properties.                                                             *)
(***************************************************************************)
\* The share of the price that remains after one discount, per class.
Resto(cls) ==
    CASE cls = "Sobremesa" -> <<17, 20>>
      [] cls = "Bebida" -> <<9, 10>>
      [] cls = "Prato" -> <<9, 10>>

Preco(i) == itens[i]["_preco"]
Cardapio == restaurante_praca["_cardapio"]
Range(f) == {f[x] : x \in DOMAIN f}

\* Positions of app1.py run as a program or during its import.
NoScript == pc # "client"
AposL9 == pc \notin {"L6", "L8", "L9"}
AposL15 == pc \notin {"L6", "L8", "L9", "L11", "L12", "L14", "L15"}
AposL19 == pc \in {"L25", "main", "fim", "done"}

\* This step is a call of aplicar_desconto on item i.
PassoDesconto(i) ==
    /\ i \in DOMAIN itens
    /\ ret'.op = "aplicar_desconto"
    /\ ret'.alvo = i
    /\ descontos'[i] = descontos[i] + 1

\* C1: one call of aplicar_desconto on a Sobremesa with price p leaves the price
\* p * 0.85, whatever p is; the script's 'Pet Gatou', built with 29.90, has price
\* 25.415 after its single discount.
C1_PassoSobremesa ==
    \A i \in DOMAIN itens :
        (PassoDesconto(i) /\ itens[i].cls = "Sobremesa")
            => itens'[i]["_preco"] = Mul(Preco(i), <<17, 20>>)

C1_PetGatou ==
    AposL15 /\ NoScript =>
        /\ itens[3].cls = "Sobremesa"
        /\ itens[3]["_nome"] = "Pet Gatou"
        /\ preco0[3] = <<299, 10>>
        /\ descontos[3] = 1
        /\ Preco(3) = <<5083, 200>>

C1_DescontoSobremesa == [][C1_PassoSobremesa]_vars /\ []C1_PetGatou

C1_Witness ==
    /\ pc = "L17"
    /\ ret.op = "aplicar_desconto" /\ ret.alvo = 3
    /\ itens[3].cls = "Sobremesa"
    /\ Preco(3) = <<5083, 200>>

\* C2: one call of aplicar_desconto on a Bebida with price p leaves the price
\* p * 0.90; the script's 'Suco de Melancia', built with 5.0 and size 'grande', has
\* price 4.5 after its single discount.
C2_PassoBebida ==
    \A i \in DOMAIN itens :
        (PassoDesconto(i) /\ itens[i].cls = "Bebida")
            => itens'[i]["_preco"] = Mul(Preco(i), <<9, 10>>)

C2_Suco ==
    AposL9 /\ NoScript =>
        /\ itens[1].cls = "Bebida"
        /\ itens[1]["_nome"] = "Suco de Melancia"
        /\ itens[1]["_tamanho"] = "grande"
        /\ preco0[1] = <<5, 1>>
        /\ descontos[1] = 1
        /\ Preco(1) = <<9, 2>>

C2_DescontoBebida == [][C2_PassoBebida]_vars /\ []C2_Suco

C2_Witness ==
    /\ pc = "L11"
    /\ ret.op = "aplicar_desconto" /\ ret.alvo = 1
    /\ itens[1].cls = "Bebida"
    /\ Preco(1) = <<9, 2>>

\* C3: after N calls of adicionar_no_cardapio on the freshly constructed restaurant
\* the menu has N elements and its i-th element is the item of the i-th call; after
\* the script the restaurant ('praça', 'Gourmet') has the menu drink, dish, dessert.
C3_CardapioEmOrdem ==
    /\ pc # "L6" =>
        /\ Len(Cardapio) = Len(adicionados)
        /\ \A k \in 1..Len(adicionados) : Cardapio[k] = adicionados[k]
    /\ AposL19 =>
        /\ restaurante_praca["_nome"] = "praça"
        /\ restaurante_praca["_categoria"] = "Gourmet"
        /\ Len(Cardapio) = 3
        /\ itens[Cardapio[1]].cls = "Bebida" /\ Cardapio[1] = 1
        /\ itens[Cardapio[2]].cls = "Prato" /\ Cardapio[2] = 2
        /\ itens[Cardapio[3]].cls = "Sobremesa" /\ Cardapio[3] = 3

C3_Witness ==
    /\ pc = "client"
    /\ Len(adicionados) = 4
    /\ Cardapio = <<1, 2, 3, 2>>
    /\ ret.op = "adicionar_no_cardapio"

\* C4: aplicar_desconto is not idempotent and has no guard: k calls on an item
\* built with price p always succeed and leave p * rate^k; two calls leave
\* p * rate^2, which for p # 0 is not p * rate.
C4_Composto ==
    /\ \A i \in DOMAIN itens :
        /\ Preco(i) = Mul(preco0[i], Pow(Resto(itens[i].cls), descontos[i]))
        /\ (descontos[i] = 2 /\ preco0[i] # Zero) =>
              /\ Preco(i) = Mul(Mul(preco0[i], Resto(itens[i].cls)), Resto(itens[i].cls))
              /\ Preco(i) # Mul(preco0[i], Resto(itens[i].cls))
    /\ ret.op = "aplicar_desconto" => ret.exc = "none"

C4_Witness ==
    \E i \in DOMAIN itens :
        /\ itens[i].cls = "Sobremesa"
        /\ descontos[i] = 2
        /\ preco0[i] = <<299, 10>>
        /\ Preco(i) = <<86411, 4000>>
        /\ ret.op = "aplicar_desconto" /\ ret.alvo = i

\* C5: str() of a constructed Sobremesa returns, without an error, the rendering
\* of the type, size and description passed to the constructor.
C5_DescreveSobremesa ==
    (ret.op = "str" /\ itens[ret.alvo].cls = "Sobremesa") =>
        /\ ret.exc = "none"
        /\ ret.val = <<"Tipo: ", itens[ret.alvo].tipo,
                       " | Tamanho: ", itens[ret.alvo].tamanho,
                       " | descricao: ", itens[ret.alvo].descricao>>

\* C6: a run of the entry script never calls the display operation: nothing is
\* written to the output, every statement up to the exit can execute, and the
\* process ends with status 0.
C6_SemExibicao ==
    NoScript =>
        /\ saida = <<>>
        /\ ret.op # "exibir_cardapio"
        /\ ret.exc = "none"
        /\ pc # "done" => ENABLED Next
        /\ pc = "done" <=> exitcode = 0

C6_Witness ==
    /\ pc = "done" /\ isMain
    /\ exitcode = 0
    /\ ret.op = "getattr"
    /\ saida = <<>>
    /\ Len(Cardapio) = 3

\* C7: an item of any class built with price 0 has price 0 after any number of
\* aplicar_desconto calls.
C7_ZeroFixo ==
    \A i \in DOMAIN itens : preco0[i] = Zero => Preco(i) = Zero

C7_Witness ==
    \E i \in DOMAIN itens :
        /\ itens[i].cls = "Sobremesa"
        /\ preco0[i] = Zero
        /\ descontos[i] = 2
        /\ Preco(i) = Zero

\* C8: in the entry script every item is constructed, discounted exactly once and
\* then added to the menu; after its insertion its price does not change and it
\* stays in the menu, at its place, for the rest of the run.
C8_Estado ==
    NoScript =>
        /\ \A i \in Range(Cardapio) : descontos[i] = 1
        /\ \A i \in DOMAIN itens : descontos[i] <= 1
        /\ AposL19 => /\ Len(itens) = 3
                      /\ Range(Cardapio) = {1, 2, 3}
                      /\ \A i \in 1..3 : descontos[i] = 1

C8_Passo ==
    NoScript =>
        /\ Len(Cardapio') >= Len(Cardapio)
        /\ \A k \in 1..Len(Cardapio) :
              /\ Cardapio'[k] = Cardapio[k]
              /\ itens'[Cardapio[k]] = itens[Cardapio[k]]
        /\ \A k \in (Len(Cardapio) + 1)..Len(Cardapio') :
              /\ descontos[Cardapio'[k]] = 1
              /\ descontos'[Cardapio'[k]] = 1

C8_CicloDeVida == [][pc # "L6" => C8_Passo]_vars /\ [](pc # "L6" => C8_Estado)

C8_Witness ==
    /\ pc = "done"
    /\ Cardapio = <<1, 2, 3>>
    /\ \A i \in 1..3 : descontos[i] = 1 /\ Preco(i) = Mul(preco0[i], Resto(itens[i].cls))

\* C9: aplicar_desconto validates nothing and raises nothing: on a negative price
\* it leaves price * rate, still negative; on a zero price it leaves zero.
C9_PassoSemValidacao ==
    \A i \in DOMAIN itens :
        PassoDesconto(i) =>
            /\ ret'.exc = "none"
            /\ IsNeg(Preco(i)) =>
                  /\ IsNeg(itens'[i]["_preco"])
                  /\ itens'[i]["_preco"] = Mul(Preco(i), Resto(itens[i].cls))
            /\ Preco(i) = Zero => itens'[i]["_preco"] = Zero

C9_SemValidacao == [][C9_PassoSemValidacao]_vars

C9_Witness ==
    \E i \in DOMAIN itens :
        /\ itens[i].cls = "Sobremesa"
        /\ preco0[i] = <<-10, 1>>
        /\ descontos[i] = 1
        /\ Preco(i) = <<-17, 2>>
        /\ ret.op = "aplicar_desconto" /\ ret.alvo = i /\ ret.exc = "none"

\* C10: aplicar_desconto on a Sobremesa changes only that item's price: its other
\* attributes, every other item and the restaurant with its menu stay as they were.
C10_PassoSoPreco ==
    \A i \in DOMAIN itens :
        (PassoDesconto(i) /\ itens[i].cls = "Sobremesa") =>
            /\ DOMAIN itens'[i] = DOMAIN itens[i]
            /\ \A a \in DOMAIN itens[i] \ {"_preco"} : itens'[i][a] = itens[i][a]
            /\ itens'[i]["_preco"] # Preco(i) \/ Preco(i) = Zero
            /\ DOMAIN itens' = DOMAIN itens
            /\ \A j \in DOMAIN itens \ {i} : itens'[j] = itens[j]
            /\ restaurante_praca' = restaurante_praca
            /\ saida' = saida

C10_SoPreco == [][C10_PassoSoPreco]_vars

C10_Witness ==
    \E i \in DOMAIN itens :
        /\ itens[i].cls = "Sobremesa"
        /\ i \in Range(Cardapio)
        /\ descontos[i] = 2
        /\ ret.op = "aplicar_desconto" /\ ret.alvo = i
        /\ itens[i].tipo = "Doce" /\ itens[i].tamanho = "pequena"
        /\ itens[i]["_nome"] = "Pet Gatou"

====
